---- MODULE Spec2Model ----
(***************************************************************************)
(* Model of src/main.c (backup_with_minizip_split): wmain, collect_entries, *)
(* resolve_link and zip_entries.                                           *)
(*                                                                         *)
(* A wide string is a sequence of one-character strings; a path is a       *)
(* sequence of such names (its components, joined by L'\\' in the source). *)
(* Characters outside ASCII are written by code point ("U+042F").          *)
(* The platform services (FindFirstFileW, IShellLink, minizip) are         *)
(* nondeterministic inputs: what the directory holds, whether a shortcut   *)
(* resolves, whether an archive opens, whether an add succeeds.            *)
(***************************************************************************)
EXTENDS Naturals, Integers, Sequences, FiniteSets, TLC

VARIABLES
    split,      \* wmain: bool split
    links0,     \* the *.lnk file names of source_folder when the run starts
    resolves,   \* resolve_link's outcome for each link: a target path or Fail
    fs,         \* the file system below the targets: node -> [ex, at]
    pending,    \* link names FindNextFileW has not returned yet
    pc,         \* position in wmain / zip_entries
    entries,    \* the FileEntry array (temp in split mode, entries in single mode)
    idx,        \* zip_entries: loop index i
    jobs,       \* history: one record per call of zip_entries
    processed,  \* history: one record per resolved shortcut, in enumeration order
    disk,       \* archive files that exist: set of [path, files, final]
    msgs,       \* messages wmain itself printed
    exitCode,   \* wmain's return value, -1 while running
    nMut,       \* external changes of the source tree so far
    nFail       \* archive backend failures so far

vars == <<split, links0, resolves, fs, pending, pc, entries, idx, jobs,
          processed, disk, msgs, exitCode, nMut, nFail>>

-----------------------------------------------------------------------------
(* Bounds *)

MaxLinks == 2
MaxNodes == 3
MaxFlagged == 1
MaxDisturbances == 1
MaxPieces == 2

-----------------------------------------------------------------------------
(* Wide strings *)

Dot == "."
Desktop_ini == <<"d","e","s","k","t","o","p",".","i","n","i">>
Desktop_INI == <<"D","e","s","k","t","o","p",".","I","N","I">>
NameDot == <<".">>
NameDotDot == <<".",".">>
ZipExt == <<".","z","i","p">>
LnkExt == <<".","l","n","k">>

\* towlower, on the letters the model's names use
ToLower(c) ==
    CASE c = "D" -> "d"
      [] c = "I" -> "i"
      [] c = "N" -> "n"
      [] OTHER -> c

\* _wcsicmp(a, b) == 0
WcsICmpEq(a, b) ==
    /\ Len(a) = Len(b)
    /\ \A i \in 1..Len(a) : ToLower(a[i]) = ToLower(b[i])

\* wcsrchr(s, c): index of the last c in s, 0 when there is none
WcsRChr(s, c) ==
    IF \E i \in 1..Len(s) : s[i] = c
    THEN CHOOSE i \in 1..Len(s) : s[i] = c /\ \A j \in (i+1)..Len(s) : s[j] /= c
    ELSE 0

\* const wchar_t suf[] = L" - <U+042F U+0440 U+043B U+044B U+043A>"
suf == <<" ", "-", " ", "U+042F", "U+0440", "U+043B", "U+044B", "U+043A">>

\* wmain 180-183 / 200-203: link_name = cFileName, cut at the last L'.', then
\* cut the suffix when the name is longer than it and ends with it
DisplayName_NoLengthTest(cFileName) ==
    LET dot == WcsRChr(cFileName, Dot)
        link_name == IF dot > 0 THEN SubSeq(cFileName, 1, dot - 1) ELSE cFileName
        ln == Len(link_name)
        sl == Len(suf)
    IN  IF ln >= sl /\ SubSeq(link_name, ln - sl + 1, ln) = suf
        THEN SubSeq(link_name, 1, ln - sl)
        ELSE link_name

DisplayName(cFileName) ==
    LET dot == WcsRChr(cFileName, Dot)
        link_name == IF dot > 0 THEN SubSeq(cFileName, 1, dot - 1) ELSE cFileName
        ln == Len(link_name)
        sl == Len(suf)
    IN  IF ln > sl /\ SubSeq(link_name, ln - sl + 1, ln) = suf
        THEN SubSeq(link_name, 1, ln - sl)
        ELSE link_name

-----------------------------------------------------------------------------
(* The file system below the shortcut targets *)

Hidden == "H"       \* FILE_ATTRIBUTE_HIDDEN
System == "S"       \* FILE_ATTRIBUTE_SYSTEM
Directory == "D"    \* FILE_ATTRIBUTE_DIRECTORY
INVALID_FILE_ATTRIBUTES == {Hidden, System, Directory}   \* every bit set

NmX == <<"x">>
NmY == <<"y">>
NmS == <<"s">>

TA == << <<"T","a">> >>     \* target directories (absolute paths)
TB == << <<"T","b">> >>
Targets == {TA, TB}
Fail == <<>>                \* resolve_link returned FALSE

NAx == TA \o <<NmX>>
NAs == TA \o <<NmS>>
NAsy == TA \o <<NmS, NmY>>
NAd == TA \o <<Desktop_INI>>
NBy == TB \o <<NmY>>

\* the order in which a directory listing returns the nodes
NodeSeq == <<NAx, NAs, NAsy, NAd, NBy>>
Nodes == {NodeSeq[i] : i \in 1..Len(NodeSeq)}
IsDirNode(n) == n \in {NAs}

Parent(p) == SubSeq(p, 1, Len(p) - 1)
Last(p) == p[Len(p)]

\* dwFileAttributes of an existing node
NodeAttr(fsys, n) == fsys[n].at \cup (IF IsDirNode(n) THEN {Directory} ELSE {})

\* GetFileAttributesW(path)
GetFileAttributesW(fsys, path) ==
    IF path \in Nodes /\ fsys[path].ex
    THEN NodeAttr(fsys, path)
    ELSE INVALID_FILE_ATTRIBUTES

IsListable(fsys, dir) ==
    \/ dir \in {TA, TB}
    \/ dir \in Nodes /\ IsDirNode(dir) /\ fsys[dir].ex

\* FindFirstFileW/FindNextFileW on dir\*: ".", "..", then the children
Listing(fsys, dir) ==
    LET kids == SelectSeq(NodeSeq, LAMBDA n : Parent(n) = dir /\ fsys[n].ex)
    IN  << [name |-> NameDot, attr |-> {Directory}],
           [name |-> NameDotDot, attr |-> {Directory}] >>
        \o [i \in 1..Len(kids) |-> [name |-> Last(kids[i]), attr |-> NodeAttr(fsys, kids[i])]]

-----------------------------------------------------------------------------
(* collect_entries *)

\* lines 62-70: the entries of a listing that are skipped
SkipAtCollect_NoAttrTest(ffd) ==
    \/ ffd.name = NameDot \/ ffd.name = NameDotDot
    \/ WcsICmpEq(ffd.name, Desktop_ini)

SkipAtCollect(ffd) ==
    \/ ffd.name = NameDot \/ ffd.name = NameDotDot
    \/ ffd.attr \cap {Hidden, System} /= {}
    \/ WcsICmpEq(ffd.name, Desktop_ini)

IsPrefix(a, b) == Len(a) <= Len(b) /\ SubSeq(b, 1, Len(a)) = a

\* lines 74-79: the path below base_dir, or the bare name
RelPart(base_dir, full_path, cFileName) ==
    IF IsPrefix(base_dir, full_path) /\ Len(full_path) > Len(base_dir)
    THEN SubSeq(full_path, Len(base_dir) + 1, Len(full_path))
    ELSE <<cFileName>>

RECURSIVE collect_entries(_, _, _)
RECURSIVE CollectListing(_, _, _, _)

\* lines 61-90: the do-while over one listing, the directory's own entry first
CollectListing(fsys, base_dir, curr_dir, listing) ==
    IF listing = <<>> THEN <<>>
    ELSE LET ffd == Head(listing)
             full_path == Append(curr_dir, ffd.name)
             e == [full |-> full_path,
                   rel |-> RelPart(base_dir, full_path, ffd.name),
                   cattr |-> ffd.attr]
         IN  IF SkipAtCollect(ffd)
             THEN CollectListing(fsys, base_dir, curr_dir, Tail(listing))
             ELSE <<e>>
                  \o (IF Directory \in ffd.attr
                      THEN collect_entries(fsys, base_dir, full_path)
                      ELSE <<>>)
                  \o CollectListing(fsys, base_dir, curr_dir, Tail(listing))

\* lines 53-92
collect_entries(fsys, base_dir, curr_dir) ==
    IF ~IsListable(fsys, curr_dir) THEN <<>>
    ELSE CollectListing(fsys, base_dir, curr_dir, Listing(fsys, curr_dir))

-----------------------------------------------------------------------------
(* wmain and zip_entries *)

OutDir == << <<"O">> >>             \* argv: <output_dir> (split mode)
OutZip == << <<"o",".","z">> >>     \* argv: <output_zip> (single mode)

\* line 186: wsprintfW(zip_path, L"%s\\%s.zip", output, link_name)
ZipPath(output, link_name) == Append(output, link_name \o ZipExt)

\* line 209: wsprintfW(entries[count].rel, L"%s\\%s", link_name, temp[j].rel)
MergeRel_NoPrefix(link_name, rel) == rel

MergeRel(link_name, rel) == <<link_name>> \o rel

\* line 135: int pct = (i * 100) / count
Pct_NextIndex(i, count) == ((i + 1) * 100) \div count

Pct(i, count) == (i * 100) \div count

\* lines 123-131: the entries zip_entries passes over
SkipAtZip(attr, full) ==
    \/ attr \cap {Hidden, System} /= {}
    \/ WcsICmpEq(Last(full), Desktop_ini)

NewJob(l, zip_path, count) ==
    [link |-> l, path |-> zip_path, n |-> count, opened |-> FALSE,
     reported |-> FALSE, added |-> <<>>, stored |-> {}, progress |-> <<>>,
     skipped |-> {}, doneLine |-> -1, closed |-> FALSE]

Cur == jobs[Len(jobs)]
SetCur(j) == [jobs EXCEPT ![Len(jobs)] = j]

\* the three single-mode links share one job; its link field is empty
NoLink == <<>>

\* zip_entries returns to wmain: the split loop goes on, single mode returns 0
Return ==
    IF split
    THEN pc' = "enum" /\ exitCode' = exitCode
    ELSE pc' = "done" /\ exitCode' = 0

\* lines 164-167: CreateDirectoryW fails with another error than ALREADY_EXISTS
CreateDirFail ==
    /\ pc = "start" /\ split
    /\ msgs' = msgs \cup {"CannotCreateDir"}
    /\ pc' = "done" /\ exitCode' = 1
    /\ UNCHANGED <<split, links0, resolves, fs, pending, entries, idx, jobs,
                   processed, disk, nMut, nFail>>

\* lines 172-176: FindFirstFileW finds no *.lnk
NoLnkFiles ==
    /\ pc = "start" /\ split /\ links0 = {}
    /\ msgs' = msgs \cup {"NoLnk"}
    /\ pc' = "done" /\ exitCode' = 1
    /\ UNCHANGED <<split, links0, resolves, fs, pending, entries, idx, jobs,
                   processed, disk, nMut, nFail>>

\* lines 172/195: the enumeration starts
StartEnum ==
    /\ pc = "start" /\ (split => links0 /= {})
    /\ pc' = "enum"
    /\ UNCHANGED <<split, links0, resolves, fs, pending, entries, idx, jobs,
                   processed, disk, msgs, exitCode, nMut, nFail>>

\* lines 179/199: resolve_link fails, continue
ResolveFail(l) ==
    /\ pc = "enum" /\ l \in pending /\ resolves[l] = Fail
    /\ pending' = pending \ {l}
    /\ UNCHANGED <<split, links0, resolves, fs, pc, entries, idx, jobs,
                   processed, disk, msgs, exitCode, nMut, nFail>>

\* lines 178-187: one split iteration up to the call of zip_entries
SplitIter(l) ==
    /\ pc = "enum" /\ split /\ l \in pending /\ resolves[l] /= Fail
    /\ LET target_dir == resolves[l]
           link_name == DisplayName(l)
           temp == collect_entries(fs, target_dir, target_dir)
           zip_path == ZipPath(OutDir, link_name)
       IN  /\ entries' = temp
           /\ jobs' = Append(jobs, NewJob(l, zip_path, Len(temp)))
           /\ processed' = Append(processed,
                 [link |-> l, name |-> link_name, target |-> target_dir])
    /\ pending' = pending \ {l}
    /\ pc' = "open" /\ idx' = 0
    /\ UNCHANGED <<split, links0, resolves, fs, disk, msgs, exitCode, nMut, nFail>>

\* lines 198-212: one single-mode iteration, the merge included
SingleIter(l) ==
    /\ pc = "enum" /\ ~split /\ l \in pending /\ resolves[l] /= Fail
    /\ LET target_dir == resolves[l]
           link_name == DisplayName(l)
           temp == collect_entries(fs, target_dir, target_dir)
       IN  /\ entries' = entries \o
                 [j \in 1..Len(temp) |->
                     [full |-> temp[j].full,
                      rel |-> MergeRel(link_name, temp[j].rel),
                      cattr |-> temp[j].cattr]]
           /\ processed' = Append(processed,
                 [link |-> l, name |-> link_name, target |-> target_dir])
    /\ pending' = pending \ {l}
    /\ UNCHANGED <<split, links0, resolves, fs, pc, idx, jobs, disk, msgs,
                   exitCode, nMut, nFail>>

\* lines 189-190, 220: the split loop ends
SplitEnd ==
    /\ pc = "enum" /\ split /\ pending = {}
    /\ pc' = "done" /\ exitCode' = 0
    /\ UNCHANGED <<split, links0, resolves, fs, pending, entries, idx, jobs,
                   processed, disk, msgs, nMut, nFail>>

\* line 216: count == 0
SingleEmpty ==
    /\ pc = "enum" /\ ~split /\ pending = {} /\ Len(entries) = 0
    /\ msgs' = msgs \cup {"NoFiles"}
    /\ pc' = "done" /\ exitCode' = 1
    /\ UNCHANGED <<split, links0, resolves, fs, pending, entries, idx, jobs,
                   processed, disk, nMut, nFail>>

\* line 217: zip_entries(output, entries, count)
SingleZip ==
    /\ pc = "enum" /\ ~split /\ pending = {} /\ Len(entries) > 0
    /\ jobs' = Append(jobs, NewJob(NoLink, OutZip, Len(entries)))
    /\ pc' = "open" /\ idx' = 0
    /\ UNCHANGED <<split, links0, resolves, fs, pending, entries, processed,
                   disk, msgs, exitCode, nMut, nFail>>

\* lines 116-120: mz_zip_writer_open_file fails
ZipOpenFail_Abort ==
    /\ pc = "open" /\ nMut + nFail < MaxDisturbances
    /\ nFail' = nFail + 1
    /\ jobs' = SetCur([Cur EXCEPT !.reported = TRUE])
    /\ pc' = "done" /\ exitCode' = 1
    /\ UNCHANGED <<split, links0, resolves, fs, pending, entries, idx,
                   processed, disk, msgs, nMut>>

ZipOpenFail ==
    /\ pc = "open" /\ nMut + nFail < MaxDisturbances
    /\ nFail' = nFail + 1
    /\ jobs' = SetCur([Cur EXCEPT !.reported = TRUE])
    /\ Return
    /\ UNCHANGED <<split, links0, resolves, fs, pending, entries, idx,
                   processed, disk, msgs, nMut>>

\* line 116: the archive is created, an existing file of that path truncated
ZipOpenOk ==
    /\ pc = "open"
    /\ jobs' = SetCur([Cur EXCEPT !.opened = TRUE])
    /\ disk' = {d \in disk : d.path /= Cur.path}
                 \cup {[path |-> Cur.path, files |-> {}, final |-> FALSE]}
    /\ pc' = "loop"
    /\ UNCHANGED <<split, links0, resolves, fs, pending, entries, idx,
                   processed, msgs, exitCode, nMut, nFail>>

\* lines 122-131: entry i is hidden, system or desktop.ini now: continue
ZipSkip ==
    /\ pc = "loop" /\ idx < Cur.n
    /\ LET e == entries[idx + 1]
           attr == GetFileAttributesW(fs, e.full)
       IN  /\ SkipAtZip(attr, e.full)
           /\ jobs' = SetCur([Cur EXCEPT !.skipped = @ \cup {idx}])
    /\ idx' = idx + 1
    /\ UNCHANGED <<split, links0, resolves, fs, pending, pc, entries,
                   processed, disk, msgs, exitCode, nMut, nFail>>

\* lines 132-137: entry i is a directory: its progress line and nothing else
ZipDir ==
    /\ pc = "loop" /\ idx < Cur.n
    /\ LET e == entries[idx + 1]
           attr == GetFileAttributesW(fs, e.full)
       IN  /\ ~SkipAtZip(attr, e.full)
           /\ Directory \in attr
           /\ jobs' = SetCur([Cur EXCEPT
                 !.progress = Append(@, [i |-> idx, pct |-> Pct(idx, Cur.n)])])
    /\ idx' = idx + 1
    /\ UNCHANGED <<split, links0, resolves, fs, pending, pc, entries,
                   processed, disk, msgs, exitCode, nMut, nFail>>

\* lines 132-139: entry i is a file: its progress line, then
\* mz_zip_writer_add_file, whose result is not looked at
ZipAdd(ok) ==
    /\ pc = "loop" /\ idx < Cur.n
    /\ ~ok => nMut + nFail < MaxDisturbances
    /\ nFail' = IF ok THEN nFail ELSE nFail + 1
    /\ LET e == entries[idx + 1]
           attr == GetFileAttributesW(fs, e.full)
       IN  /\ ~SkipAtZip(attr, e.full)
           /\ Directory \notin attr
           /\ jobs' = SetCur([Cur EXCEPT
                 !.progress = Append(@, [i |-> idx, pct |-> Pct(idx, Cur.n)]),
                 !.added = Append(@, [full |-> e.full, rel |-> e.rel, attr |-> attr]),
                 !.stored = IF ok THEN @ \cup {e.rel} ELSE @])
           /\ disk' = IF ok
                      THEN {IF d.path = Cur.path
                            THEN [d EXCEPT !.files = @ \cup {e.rel}]
                            ELSE d : d \in disk}
                      ELSE disk
    /\ idx' = idx + 1
    /\ UNCHANGED <<split, links0, resolves, fs, pending, pc, entries,
                   processed, msgs, exitCode, nMut>>

\* lines 141-143: the completion line, close, delete
ZipClose ==
    /\ pc = "loop" /\ idx = Cur.n
    /\ jobs' = SetCur([Cur EXCEPT !.doneLine = Cur.n, !.closed = TRUE])
    /\ disk' = {IF d.path = Cur.path THEN [d EXCEPT !.final = TRUE] ELSE d : d \in disk}
    /\ Return
    /\ UNCHANGED <<split, links0, resolves, fs, pending, entries, idx,
                   processed, msgs, nMut, nFail>>

\* Another process changes a collected node before zip_entries reads its
\* attributes: the node is hidden or deleted. Entry i is read once, in
\* iteration i, so a change at any earlier moment has the effect of a change
\* before the loop starts, and only that moment is modelled.
Mutate(i, change) ==
    /\ pc = "loop" /\ idx = 0 /\ nMut + nFail < MaxDisturbances
    /\ i \in 1..Len(entries)
    /\ LET n == entries[i].full
       IN  /\ fs[n].ex
           /\ fs' = [fs EXCEPT ![n] =
                 IF change = "hide"
                 THEN [@ EXCEPT !.at = @ \cup {Hidden}]
                 ELSE [ex |-> FALSE, at |-> {}]]
           /\ fs' /= fs
    /\ nMut' = nMut + 1
    /\ UNCHANGED <<split, links0, resolves, pending, pc, entries, idx, jobs,
                   processed, disk, msgs, exitCode, nFail>>

-----------------------------------------------------------------------------
(* Inputs *)

LnkA == <<"A">> \o LnkExt
LnkASuf == <<"A">> \o suf \o LnkExt
LnkB == <<"B">> \o LnkExt
LinkNames == {LnkA, LnkASuf, LnkB}

AttrChoices == {{}, {Hidden}, {System}}

FileSystems ==
    {f \in [Nodes -> [ex : BOOLEAN, at : AttrChoices]] :
        /\ Cardinality({n \in Nodes : f[n].ex}) <= MaxNodes
        /\ Cardinality({n \in Nodes : f[n].at /= {}}) <= MaxFlagged
        /\ \A n \in Nodes : f[n].ex /\ Parent(n) \in Nodes => f[Parent(n)].ex
        /\ \A n \in Nodes : ~f[n].ex => f[n].at = {}}

InitRun ==
    /\ pending = links0
    /\ pc = "start"
    /\ entries = <<>>
    /\ idx = 0
    /\ jobs = <<>>
    /\ processed = <<>>
    /\ disk = {}
    /\ msgs = {}
    /\ exitCode = -1
    /\ nMut = 0
    /\ nFail = 0

\* Only the trees some shortcut resolves to are populated: the program never
\* looks at any other directory.
Init ==
    /\ split \in BOOLEAN
    /\ links0 \in {L \in SUBSET LinkNames : Cardinality(L) <= MaxLinks}
    /\ resolves \in [links0 -> Targets \cup {Fail}]
    /\ fs \in FileSystems
    /\ \A n \in Nodes : fs[n].ex => \E l \in links0 : resolves[l] = <<n[1]>>
    /\ InitRun

Next ==
    \/ CreateDirFail
    \/ NoLnkFiles
    \/ StartEnum
    \/ \E l \in pending : ResolveFail(l)
    \/ \E l \in pending : SplitIter(l)
    \/ \E l \in pending : SingleIter(l)
    \/ SplitEnd
    \/ SingleEmpty
    \/ SingleZip
    \/ ZipOpenFail
    \/ ZipOpenOk
    \/ ZipSkip
    \/ ZipDir
    \/ \E ok \in BOOLEAN : ZipAdd(ok)
    \/ ZipClose
    \/ \E i \in 1..Len(entries), change \in {"hide", "delete"} : Mutate(i, change)

Spec == Init /\ [][Next]_vars

-----------------------------------------------------------------------------
(* Shortcut names: one shortcut whose file name is put together from pieces *)

Photos == <<"P","h","o","t","o","s">>
ShortcutSuffix == <<" ","-"," ","S","h","o","r","t","c","u","t">>
Pieces == {<<"A">>, Photos, suf, ShortcutSuffix, <<".">>}

RECURSIVE Stems(_)
Stems(k) ==
    IF k = 0 THEN {<<>>}
    ELSE Stems(k - 1) \cup {s \o p : s \in Stems(k - 1), p \in Pieces}

\* what FindFirstFileW returns for the pattern *.lnk
NameInputs == {s \o LnkExt : s \in Stems(MaxPieces)}

FsNames ==
    [n \in Nodes |-> [ex |-> n \in {NAx, NAs}, at |-> {}]]

InitNames ==
    /\ split \in BOOLEAN
    /\ links0 \in {{}} \cup {{n} : n \in NameInputs}
    /\ resolves \in [links0 -> {TA, Fail}]
    /\ fs = FsNames
    /\ InitRun

SpecNames == InitNames /\ [][Next]_vars

-----------------------------------------------------------------------------
(* What the claims speak of *)

Resolvable == {l \in links0 : resolves[l] /= Fail}

JobIdx == 1..Len(jobs)

\* a node's ancestors below the target, the node included
Chain(target, n) == {SubSeq(n, 1, k) : k \in (Len(target) + 1)..Len(n)}

Excluded(fsys, m) ==
    \/ Last(m) \in {NameDot, NameDotDot}
    \/ fsys[m].at \cap {Hidden, System} /= {}
    \/ WcsICmpEq(Last(m), Desktop_ini)

\* the regular files below target that PathFilter excludes neither directly
\* nor through an ancestor
Eligible(fsys, target) ==
    {n \in Nodes :
        /\ IsPrefix(target, n) /\ Len(n) > Len(target)
        /\ ~IsDirNode(n)
        /\ \A m \in Chain(target, n) : fsys[m].ex /\ ~Excluded(fsys, m)}

RelOf(target, n) == SubSeq(n, Len(target) + 1, Len(n))

ExpectedSplit(l) == {RelOf(resolves[l], n) : n \in Eligible(fs, resolves[l])}

ExpectedSingle ==
    UNION {{<<DisplayName(l)>> \o RelOf(resolves[l], n) : n \in Eligible(fs, resolves[l])}
           : l \in Resolvable}

AddedRels(j) == {jobs[j].added[k].rel : k \in 1..Len(jobs[j].added)}

ProgressIdx(j) == {jobs[j].progress[k].i : k \in 1..Len(jobs[j].progress)}

-----------------------------------------------------------------------------
(* Claims *)

\* C1: a file with the hidden or the system attribute is no entry of the list
\* handed to zip_entries (its attributes as collect_entries saw them, and as
\* they are now while the tree is unchanged), and no add is ever made for an
\* entry that is hidden or system when zip_entries reads its attributes.
C1_HiddenSystemNeverArchived ==
    /\ \A i \in 1..Len(entries) :
          /\ entries[i].cattr \cap {Hidden, System} = {}
          /\ nMut = 0 => GetFileAttributesW(fs, entries[i].full) \cap {Hidden, System} = {}
    /\ \A j \in JobIdx : \A k \in 1..Len(jobs[j].added) :
          jobs[j].added[k].attr \cap {Hidden, System} = {}

\* a hidden file lay in a collected tree, an entry turned hidden before the
\* re-check and was passed over, and another file was added and the archive closed
C1_Witness ==
    \E j \in JobIdx :
        /\ jobs[j].closed /\ jobs[j].added /= <<>> /\ jobs[j].skipped /= {}
        /\ \E n \in Nodes :
              /\ fs[n].ex /\ ~IsDirNode(n) /\ fs[n].at /= {}
              /\ \A i \in 1..Len(entries) : entries[i].full /= n

\* C2: with the tree unchanged and the backend not failing, a closed archive
\* holds exactly the relative paths of the eligible regular files, and no
\* directory is an entry of the list it was written from or of the archive.
C2_ArchiveIsEligibleFilesNoDirEntry ==
    (nMut = 0 /\ nFail = 0) =>
        \A j \in JobIdx : jobs[j].closed =>
            /\ AddedRels(j) = (IF split THEN ExpectedSplit(jobs[j].link) ELSE ExpectedSingle)
            /\ \A k \in 1..Len(jobs[j].added) : Directory \notin jobs[j].added[k].attr
            /\ j = Len(jobs) => \A i \in 1..Len(entries) : Directory \notin entries[i].cattr

\* C3: split mode, every open succeeding: as many archive files as resolvable
\* shortcuts, each resolvable shortcut's archive at <outputDir>/<displayName>.zip
\* holding that shortcut's entries.
C3_OneArchivePerResolvableShortcut ==
    (split /\ pc = "done" /\ exitCode = 0 /\ nFail = 0) =>
        /\ Cardinality({d.path : d \in disk}) = Cardinality(Resolvable)
        /\ \A l \in Resolvable : \E d \in disk :
              /\ d.path = ZipPath(OutDir, DisplayName(l))
              /\ d.final
              /\ nMut = 0 => d.files = ExpectedSplit(l)

\* C4: single mode, tree unchanged: the paths zip_entries adds to the one
\* archive are displayName\relative-path over all resolvable shortcuts, whatever
\* the enumeration order, and they are what the archive holds when no add failed.
C4_SingleArchivePaths ==
    \A j \in JobIdx : (~split /\ jobs[j].closed /\ nMut = 0) =>
        /\ jobs[j].path = OutZip
        /\ AddedRels(j) = ExpectedSingle
        /\ jobs[j].stored \subseteq ExpectedSingle
        /\ nFail = 0 =>
              \E d \in disk : d.path = OutZip /\ d.final /\ d.files = ExpectedSingle

\* B was enumerated before A, and the archive holds A\x and B\y
C4_Witness ==
    /\ ~split /\ pc = "done" /\ Len(processed) = 2
    /\ processed[1].link = LnkB /\ processed[2].link = LnkA
    /\ resolves[LnkA] = TA /\ resolves[LnkB] = TB
    /\ \E d \in disk :
          /\ d.final
          /\ d.files = {<<<<"A">>, NmX>>, <<<<"B">>, NmY>>}

\* C5: single mode with no eligible regular file at all: "No files to archive",
\* exit status 1, zip_entries never called and no archive file.
C5_NothingToArchive ==
    (~split /\ pc = "done" /\ nMut = 0 /\ nFail = 0
        /\ \A l \in Resolvable : Eligible(fs, resolves[l]) = {}) =>
        /\ "NoFiles" \in msgs
        /\ exitCode = 1
        /\ jobs = <<>>
        /\ disk = {}

\* C6: single mode: exit status 1 when the archive could not be opened, exit
\* status 0 only when it was opened and closed.
C6_OpenFailureIsFatal ==
    (~split /\ pc = "done") =>
        /\ (\E j \in JobIdx : jobs[j].reported) => (exitCode = 1 /\ disk = {})
        /\ exitCode = 0 => \E j \in JobIdx : jobs[j].opened /\ jobs[j].closed

\* C7: a job's archive is closed only with every eligible entry in it; a job
\* that did not open has no archive.
C7_ClosedArchiveIsComplete ==
    \A j \in JobIdx :
        /\ jobs[j].closed => AddedRels(j) \subseteq jobs[j].stored
        /\ ~jobs[j].opened => jobs[j].stored = {}

\* C8: split mode: a job whose archive did not open is reported, adds nothing
\* and closes nothing; when the loop has ended every resolvable shortcut has
\* had its own job, at its own path, over its collected target, and every job
\* that opened was closed.
C8_SplitOpenFailureIsLocal ==
    split =>
        /\ \A j \in JobIdx : jobs[j].reported =>
              /\ ~jobs[j].opened /\ ~jobs[j].closed
              /\ jobs[j].added = <<>> /\ jobs[j].stored = {}
        /\ (pc = "done" /\ "CannotCreateDir" \notin msgs /\ "NoLnk" \notin msgs) =>
              /\ \A l \in Resolvable :
                    /\ Cardinality({j \in JobIdx : jobs[j].link = l}) = 1
                    /\ \A j \in JobIdx : jobs[j].link = l =>
                          /\ jobs[j].path = ZipPath(OutDir, DisplayName(l))
                          /\ nMut = 0 => jobs[j].n = Len(collect_entries(fs, resolves[l], resolves[l]))
              /\ \A j \in JobIdx :
                    /\ jobs[j].opened \/ jobs[j].reported
                    /\ jobs[j].opened => jobs[j].closed /\ jobs[j].doneLine = jobs[j].n

\* the first job's archive did not open, the second shortcut's archive was
\* written and closed
C8_Witness ==
    /\ split /\ pc = "done" /\ Len(jobs) = 2
    /\ jobs[1].reported
    /\ jobs[2].closed /\ jobs[2].stored /= {}

\* s = p \o sfx for a p that is in ps
EndsWith(s, sfx, p) == Len(s) = Len(p) + Len(sfx) /\ s = p \o sfx

Prefixes(s) == {SubSeq(s, 1, k) : k \in 0..Len(s)}

\* the name without its final extension: what stands before the last L'.'
Base(f) ==
    IF \E b \in Prefixes(f) : \E k \in 1..Len(f) :
          /\ f[k] = Dot /\ b = SubSeq(f, 1, k - 1)
          /\ \A m \in (k + 1)..Len(f) : f[m] /= Dot
    THEN CHOOSE b \in Prefixes(f) : \E k \in 1..Len(f) :
          /\ f[k] = Dot /\ b = SubSeq(f, 1, k - 1)
          /\ \A m \in (k + 1)..Len(f) : f[m] /= Dot
    ELSE f

\* b without sfx at its end; with strict, only when something is left
Strip(b, sfx, strict) ==
    IF \E q \in Prefixes(b) : EndsWith(b, sfx, q) /\ (strict => q /= <<>>)
    THEN CHOOSE q \in Prefixes(b) : EndsWith(b, sfx, q)
    ELSE b

\* where a shortcut's display name shows: the archive's file name in split
\* mode, the first component of its entries' archive paths in single mode
NameUsed(k) ==
    IF split
    THEN \A j \in JobIdx : jobs[j].link = processed[k].link =>
            jobs[j].path = Append(OutDir, processed[k].name \o ZipExt)
    ELSE \A i \in 1..Len(entries) :
            IsPrefix(processed[k].target, entries[i].full) =>
                \E q \in 1..Len(processed) : entries[i].rel[1] = processed[q].name

\* C9 as stated: extension removed, then " - Shortcut" removed whenever the
\* rest ends with it.
C9_DisplayNameShortcutSuffix ==
    \A k \in 1..Len(processed) :
        processed[k].name = Strip(Base(processed[k].link), ShortcutSuffix, FALSE)

\* C9 as amended: extension removed, then the suffix " - " U+042F U+0440
\* U+043B U+044B U+043A removed when the rest ends with it and is longer than
\* it; that name is the archive's name (split) or the paths' prefix (single).
C9_DisplayNameAmended ==
    \A k \in 1..Len(processed) :
        /\ processed[k].name = Strip(Base(processed[k].link), suf, TRUE)
        /\ NameUsed(k)

\* "Photos" \o suf \o ".lnk" was processed and named Photos
C9_Witness ==
    \E k \in 1..Len(processed) :
        /\ processed[k].link = Photos \o suf \o LnkExt
        /\ processed[k].name = Photos
        /\ pc = "done"

\* pct is floor(i * 100 / n)
IsFloorPct(pct, i, n) == pct * n <= i * 100 /\ i * 100 < (pct + 1) * n

\* C10 as stated: an opened job of n entries prints a progress line for every
\* index 0..n-1.
C10_ProgressForEveryIndex ==
    \A j \in JobIdx : jobs[j].closed => ProgressIdx(j) = 0..(jobs[j].n - 1)

\* C10 as amended: an opened job prints a progress line for every index whose
\* entry passes the write-time filter and for no other, in increasing order,
\* with floor(i*100/n) in 0..99; with n = 0 there is none; the completion line
\* carries n and the archive is closed.
C10_ProgressAmended ==
    \A j \in JobIdx :
        LET done == IF j = Len(jobs) /\ pc = "loop" THEN idx ELSE jobs[j].n
            pr == jobs[j].progress
        IN  jobs[j].opened =>
              /\ ProgressIdx(j) = (0..(done - 1)) \ jobs[j].skipped
              /\ \A k \in 1..Len(pr) :
                    /\ IsFloorPct(pr[k].pct, pr[k].i, jobs[j].n)
                    /\ pr[k].pct \in 0..99
                    /\ k > 1 => pr[k - 1].i < pr[k].i
              /\ \A i \in jobs[j].skipped :
                    /\ i < jobs[j].n
                    /\ j = Len(jobs) =>
                          SkipAtZip(GetFileAttributesW(fs, entries[i + 1].full),
                                    entries[i + 1].full)
              /\ jobs[j].n = 0 => pr = <<>>
              /\ (j < Len(jobs) \/ pc /= "loop") =>
                    jobs[j].closed /\ jobs[j].doneLine = jobs[j].n

\* a job of three entries, one passed over, with the lines 33% and 66%; and a
\* job of no entry at all, closed with the completion line 0
C10_Witness ==
    /\ \E j \in JobIdx :
          /\ jobs[j].closed /\ jobs[j].n = 3 /\ jobs[j].skipped = {0}
          /\ \E k \in 1..Len(jobs[j].progress) : jobs[j].progress[k].pct = 66
    /\ \E j \in JobIdx :
          /\ jobs[j].closed /\ jobs[j].n = 0
          /\ jobs[j].progress = <<>> /\ jobs[j].doneLine = 0

====
